---- MODULE Spec2Model ----
(***************************************************************************)
(* NINE mesh messaging: the hub relay embedded in the Electron main        *)
(* process (electron/main.js), the node relay MeshNetwork                  *)
(* (services/meshNetwork.ts), the persistence bridge MessageStore          *)
(* (services/messageStore.ts), the envelope factory MessageFactory         *)
(* (services/messageFactory.ts) and the admin join E2EService              *)
(* (services/e2eService.ts).                                               *)
(***************************************************************************)
EXTENDS Integers, Sequences, FiniteSets, TLC

(***************************************************************************)
(* Bounds of the model and constants of the program.                       *)
(***************************************************************************)
\* WebSocket connections that are ever opened in one behaviour.
MaxSessions == 3
\* Envelopes that are ever originated (nodes and gateway together).
MaxMsgs == 1
\* Frames (register, mesh_message) the raw hub clients of SpecHub send.
MaxRawFrames == 3
\* Connections the raw hub clients of SpecHub open.
MaxRawSessions == 2
\* Connections of nodes that are ever closed.
MaxClosed == 1
\* Admin key pairs that are ever generated.
MaxKeyPairs == 1
\* E2EService instances a node constructs.
MaxE2EServices == 1
\* Largest ttl of an envelope a caller hands to MeshNetwork.broadcastMessage.
MaxRawTTL == 1
\* Reconnect timers of a node that are pending at one time.
MaxTimers == 2
\* Admin key pairs generated in SpecJoin and SpecIdentity.
MaxJoinKeyPairs == 2
\* Calls of getOrCreateNodeId, and of initializeAdminMode, in SpecIdentity.
MaxIdentityCalls == 3
\* Largest msg_id handed to MessageStore.markAsProcessed in SpecDedupe.
MaxMarkId == 1002
\* MessageFactory.DEFAULT_TTL
DEFAULT_TTL == 8
\* ttl of the envelope built by POST /gateway/submit
GATEWAY_TTL == 8
\* MessageStore.markAsProcessed: capacity of the dedupe list
DEDUPE_CAP == 1000
\* MeshNetwork.maxReconnectAttempts
maxReconnectAttempts == 10
\* Message ids the application hands to DeliveryManager.
MaxDeliveryIds == 1
\* setTimeout handles DeliveryManager ever creates.
MaxDeliveryTimers == 4
\* Invocations of the retry callback per message id that are followed.
MaxRetryCalls == 4
\* Calls of DeliveryManager that are suspended at an await at one time.
MaxAwaiting == 2
\* DeliveryManager.maxRetries
maxRetries == 3
\* BLE devices HybridMeshService ever connects to.
MaxDevices == 2
\* Message ids the application hands to HybridMeshService.sendMessage.
MaxHybridMsgs == 2
\* Calls of CacheManager.addMessage in one behaviour of SpecCache.
MaxCacheAdds == 4
\* Times the clock read by CacheManager.addMessage jumps past cacheTimeout.
MaxClockJumps == 2
\* CacheManager.maxCacheSize
maxCacheSize == 1000
\* CacheManager.cacheTimeout, in milliseconds
cacheTimeout == 300000

Nodes == {"A", "Z"}
\* peer ids are node ids: MeshNetwork registers with its nodeId
PeerIds == Nodes
Sessions == 1..MaxSessions
MsgIds == 1..MaxMsgs
Null == "null"
NoSession == 0
\* the hop budgets an envelope handed to broadcastMessage may carry
OriginTTLs == 0..MaxRawTTL

VARIABLES
    \* ---- hub (electron/main.js) ----
    peers,        \* Map peerId -> ws          (NoSession: no entry)
    hstate,       \* hub side of a connection: "none" | "open" | "closed"
    hpeerId,      \* the handler closure's `peerId` of a connection
    inbox,        \* frames hub -> client in flight, per connection
    outbox,       \* frames client -> hub in flight, per connection
    gwTimers,     \* key frames of pending gateway setTimeout callbacks
    gwResponse,   \* status of the latest response of POST /gateway/submit (0: none)
    \* ---- client side of a connection ----
    cstate,       \* "free" | "connecting" | "open" | "closing" | "closed"
    owner,        \* the node whose MeshNetwork created it; Null: a raw client
    rawSent,      \* frames sent by raw clients so far
    \* ---- node relay (MeshNetwork), per node ----
    ws,           \* this.ws
    meshPeers,    \* this.peers
    reconnectAttempts,
    reconnectTimers,  \* pending setTimeout(connectToServer) callbacks
    e2eServices,  \* E2EService instances whose listeners are registered
    joins,        \* tryDecryptMessage calls suspended at their first await
    \* ---- localStorage, per node ----
    messageMesh,  \* nine_message_mesh
    keyMesh,      \* nine_key_mesh
    broadcasts,   \* nine_broadcasts
    decrypted,    \* nine_decrypted
    dedupe,       \* nine_dedupe
    adminStore,   \* nine_is_admin, nine_admin_private_key, nine_admin_public_key
    identity,     \* per node: NodeIdGenerator's cache and nine_node_id, and what
                  \* getOrCreateNodeId and initializeAdminMode returned last
    storageFull,  \* localStorage.setItem throws (the quota is exhausted)
    \* ---- observation ----
    nextId,       \* the next fresh msg_id
    origin,       \* per msg_id: the hop budget and wrapping key at origination
    handled,      \* per node and msg_id: dispatches to the message handlers
    nextKey,      \* the next fresh admin key pair
    thrown,       \* per node: the error its latest service call threw (Null: none)
    peerLost,     \* per node and peer id: calls of the peer-lost handlers
    \* ---- mobile application (application_project) ----
    delivery,     \* DeliveryManager, the delivered flags of Database, pending calls
    hybrid,       \* HybridMeshService: connections, retry queue, sent ids, writes
    cache         \* CacheManager: cached message ids, their timestamps, the clock

gwVars == <<gwTimers, gwResponse>>
hubVars == <<peers, hstate, hpeerId, inbox, outbox, gwVars>>
connVars == <<cstate, owner, rawSent>>
relayVars == <<ws, meshPeers, reconnectAttempts, reconnectTimers, e2eServices, joins>>
storeVars == <<messageMesh, keyMesh, broadcasts, decrypted, dedupe, adminStore, identity,
               storageFull>>
obsVars == <<nextId, origin, handled, nextKey, thrown, peerLost>>
nodeVars == <<relayVars, storeVars, obsVars>>
\* the mobile application (application_project)
appVars == <<delivery, hybrid, cache>>
vars == <<hubVars, connVars, relayVars, storeVars, obsVars, appVars>>

(***************************************************************************)
(* Frames of the wire protocol.                                            *)
(***************************************************************************)
RegisterFrame(p) == [type |-> "register", peerId |-> p]
MeshFrameOut(env, etype) ==
    [type |-> "mesh_message", envelope |-> env, envelopeType |-> etype]
MeshFrameIn(env, from, etype) ==
    [type |-> "mesh_message", envelope |-> env, fromPeer |-> from,
     envelopeType |-> etype]
PeerConnected(p) == [type |-> "peer_connected", peerId |-> p]
PeerDisconnected(p) == [type |-> "peer_disconnected", peerId |-> p]
PeerList(ps) == [type |-> "peer_list", peers |-> ps]

\* n copies of a frame
Copies(f, n) == [i \in 1..n |-> f]

(***************************************************************************)
(* Hub relay.                                                              *)
(***************************************************************************)
\* broadcastToOthers(excludePeerId, message): one send per map entry whose
\* key differs from excludePeerId and whose socket is OPEN.
broadcastToOthers(pr, hs, ib, excludePeerId, message) ==
    [t \in Sessions |->
        IF hs[t] = "open"
        THEN ib[t] \o Copies(message,
                 Cardinality({q \in PeerIds : q # excludePeerId /\ pr[q] = t}))
        ELSE ib[t]]

\* ws.on('message') with a register frame
HubOnRegister(s, p) ==
    LET pr == [peers EXCEPT ![p] = s]
        ib == broadcastToOthers(pr, hstate, inbox, p, PeerConnected(p))
        existingPeers == {q \in PeerIds : pr[q] # NoSession /\ q # p}
    IN  /\ hpeerId' = [hpeerId EXCEPT ![s] = p]
        /\ peers' = pr
        /\ inbox' = [ib EXCEPT ![s] = Append(@, PeerList(existingPeers))]

\* ws.on('message') with a mesh_message frame
HubOnMeshMessage(s, f) ==
    /\ inbox' = IF hpeerId[s] # Null
                THEN broadcastToOthers(peers, hstate, inbox, hpeerId[s],
                         MeshFrameIn(f.envelope, hpeerId[s], f.envelopeType))
                ELSE inbox
    /\ UNCHANGED <<peers, hpeerId>>

\* ws.on('message'): the hub side of the connection is open
HubOnMessage(s, f) ==
    /\ hstate[s] = "open"
    /\ IF f.type = "register" THEN HubOnRegister(s, f.peerId)
       ELSE HubOnMeshMessage(s, f)

\* ws.on('close'): the closing socket is no longer OPEN when the handler runs
HubOnClose(s) ==
    LET hs == [hstate EXCEPT ![s] = "closed"]
    IN  /\ hstate[s] = "open"
        /\ hstate' = hs
        /\ IF hpeerId[s] # Null
           THEN LET pr == [peers EXCEPT ![hpeerId[s]] = NoSession]
                IN  /\ peers' = pr
                    /\ inbox' = broadcastToOthers(pr, hs, inbox, hpeerId[s],
                                     PeerDisconnected(hpeerId[s]))
           ELSE UNCHANGED <<peers, inbox>>
        /\ UNCHANGED hpeerId

(***************************************************************************)
(* Connections.                                                            *)
(***************************************************************************)
\* connections are numbered in the order they are made
FreshSession(s) ==
    /\ cstate[s] = "free"
    /\ \A t \in Sessions : t < s => cstate[t] # "free"

\* the connection s may still close: the closed connections stay within the bound
MayClose(s) ==
    Cardinality({t \in Sessions : cstate[t] = "closed" \/ hstate[t] = "closed"}
                \cup {s}) <= MaxClosed

(***************************************************************************)
(* Persistence bridge: MessageStore over localStorage.                     *)
(***************************************************************************)
HasId(seq, id) == \E i \in 1..Len(seq) : seq[i].msg_id = id
\* Array.prototype.find: the first entry with the id
FindById(seq, id) ==
    seq[CHOOSE i \in 1..Len(seq) :
            /\ seq[i].msg_id = id
            /\ \A j \in 1..(i - 1) : seq[j].msg_id # id]
CountId(seq, id) == Cardinality({i \in 1..Len(seq) : seq[i].msg_id = id})

\* saveToStorage: a setItem that throws is caught and logged, the stored
\* item stays as it was (full: setItem throws)
saveToStorage(full, stored, data) == IF full THEN stored ELSE data

saveMessageEnvelope(full, mm, m) == saveToStorage(full, mm, Append(mm, m))
saveKeyEnvelope(full, km, k) == saveToStorage(full, km, Append(km, k))
saveBroadcast(full, bs, m) == saveToStorage(full, bs, Append(bs, m))
saveDecryptedMessage(full, dec, d) == saveToStorage(full, dec, Append(dec, d))

\* faulty variant of isDuplicate: only the newest id is looked at
isDuplicate_Newest(dd, id) == dd # <<>> /\ dd[Len(dd)] = id

isDuplicate(dd, id) == \E i \in 1..Len(dd) : dd[i] = id

\* faulty variant of markAsProcessed: the oldest id is never dropped
markAsProcessed_NoShift(full, dd, id) ==
    IF isDuplicate(dd, id) THEN dd
    ELSE saveToStorage(full, dd, Append(dd, id))

markAsProcessed(full, dd, id) ==
    IF isDuplicate(dd, id) THEN dd
    ELSE LET pushed == Append(dd, id)
         IN  saveToStorage(full, dd,
                 IF Len(pushed) > DEDUPE_CAP THEN Tail(pushed) ELSE pushed)

(***************************************************************************)
(* Envelope model: MessageFactory.                                         *)
(* A payload is represented by the session key that seals it (0: plain     *)
(* text); a wrapped key by the public key it is wrapped to and the session *)
(* key inside.  Key pairs are numbered in the order they are generated.    *)
(***************************************************************************)
createBroadcastMessage(n, id) ==
    [msg_id |-> id, type |-> "broadcast", from |-> n, to |-> "all",
     ttl |-> DEFAULT_TTL, hops |-> <<n>>, payload |-> [sealed |-> 0]]

createE2EMessageEnvelope(n, id) ==
    [msg_id |-> id, type |-> "e2e", from |-> n, to |-> "admin",
     ttl |-> DEFAULT_TTL, hops |-> <<n>>, payload |-> [sealed |-> id]]

createKeyEnvelope(n, id, pub) ==
    [msg_id |-> id, from |-> n, to |-> "admin",
     wrapped_key |-> [pub |-> pub, sk |-> id]]

\* faulty variant of addHop: the hop is recorded, the ttl is not decremented
addHop_KeepsTtl(n, envelope) ==
    [envelope EXCEPT !.hops = Append(@, n)]

addHop(n, envelope) ==
    [envelope EXCEPT !.ttl = @ - 1, !.hops = Append(@, n)]

(***************************************************************************)
(* Crypto envelope: CryptoUtils.                                           *)
(***************************************************************************)
CryptoError == -1
\* crypto_box_open_easy: opens only with the private key of the public key
\* the session key was wrapped to
unwrapSessionKey(wrapped, adminPrivateKey) ==
    IF wrapped.pub = adminPrivateKey THEN wrapped.sk ELSE CryptoError
\* crypto_secretbox_open_easy: opens only with the sealing session key
decryptMessage(payload, sessionKey) ==
    IF sessionKey # CryptoError /\ payload.sealed = sessionKey
    THEN payload.sealed ELSE CryptoError

(***************************************************************************)
(* AdminKeyStore / AdminKeyGenerator.                                      *)
(***************************************************************************)
\* localStorage.getItem of a key item that is not there
NoKey == 0
NoAdminKeys == [isAdmin |-> FALSE, privateKey |-> NoKey, publicKey |-> NoKey]
\* origin[id] before id is originated
NotOriginated ==
    [ttl |-> -1, type |-> Null, wrappedTo |-> NoKey, src |-> Null,
     links |-> [n \in Nodes |-> NoSession]]

\* localStorage.getItem of one of the three admin items of node n
AdminItem(n, item) == adminStore[n][item]
isAdminMode(n) == AdminItem(n, "isAdmin")
getAdminPrivateKey(n) == AdminItem(n, "privateKey")
getAdminPublicKey(n) == AdminItem(n, "publicKey")

\* faulty variant of hasAdminKeys: stored keys are not found
hasAdminKeys_Never(n) == FALSE

hasAdminKeys(n) == getAdminPrivateKey(n) # NoKey /\ getAdminPublicKey(n) # NoKey
setAdminMode(items, isAdmin) == [items EXCEPT !.isAdmin = isAdmin]
saveAdminKeyPair(items, keyPair) ==
    setAdminMode([items EXCEPT !.privateKey = keyPair, !.publicKey = keyPair], TRUE)
\* faulty variant of clearAdminKeys: the mode flag is cleared, the keys stay
clearAdminKeys_KeepsKeys(items) == setAdminMode(items, FALSE)

clearAdminKeys(items) ==
    setAdminMode([items EXCEPT !.privateKey = NoKey, !.publicKey = NoKey], FALSE)

\* AdminKeyGenerator.initializeAdminMode (App.handleInitAdmin): the stored
\* pair is kept, otherwise a fresh pair is generated (key pair k: both halves
\* are named k).  AdminKeyStore writes with a bare setItem: the call is
\* modelled while localStorage accepts writes.
initializeAdminMode(n, maxKeyPairs) ==
    /\ ~storageFull[n]
    /\ IF hasAdminKeys(n)
       THEN /\ adminStore' = [adminStore EXCEPT ![n] = setAdminMode(@, TRUE)]
            /\ UNCHANGED nextKey
       ELSE /\ nextKey <= maxKeyPairs
            /\ adminStore' = [adminStore EXCEPT ![n] = saveAdminKeyPair(@, nextKey)]
            /\ nextKey' = nextKey + 1

\* the calls that change the store: a call on a node that is in admin mode
\* already changes nothing
InitAdmin(n) ==
    /\ hasAdminKeys(n) => ~isAdminMode(n)
    /\ initializeAdminMode(n, MaxKeyPairs)
    /\ UNCHANGED <<hubVars, connVars, appVars, relayVars, nextId, origin, handled,
                   thrown, peerLost, messageMesh, keyMesh, broadcasts,
                   decrypted, dedupe, storageFull, identity>>

\* AdminKeyGenerator.resetAdminKeys
ResetAdminKeys(n) ==
    /\ ~storageFull[n]
    /\ adminStore[n] # NoAdminKeys
    /\ adminStore' = [adminStore EXCEPT ![n] = clearAdminKeys(@)]
    /\ UNCHANGED <<hubVars, connVars, appVars, relayVars, obsVars, messageMesh, keyMesh,
                   broadcasts, decrypted, dedupe, storageFull, identity>>

\* the error of localStorage.setItem when the quota is used up
QuotaExceededError == "QuotaExceededError"

\* NodeIdGenerator of a node that has not asked for its id yet
NoIdentity ==
    [nodeId |-> NoKey, storedId |-> NoKey, generated |-> 0, idCalls |-> 0,
     returnedId |-> NoKey, adminCalls |-> 0, returnedPair |-> NoKey]

\* NodeIdGenerator.getOrCreateNodeId: the cached id, else the stored id,
\* else a fresh id (the k-th id generated on the node is named k) that is
\* stored and cached; a setItem that throws ends the call
getOrCreateNodeId(id, full) ==
    IF id.nodeId # NoKey
    THEN [id EXCEPT !.returnedId = id.nodeId]
    ELSE IF id.storedId # NoKey
    THEN [id EXCEPT !.nodeId = id.storedId, !.returnedId = id.storedId]
    ELSE IF full
    THEN [id EXCEPT !.generated = @ + 1]
    ELSE [id EXCEPT !.generated = @ + 1, !.storedId = id.generated + 1,
                    !.nodeId = id.generated + 1, !.returnedId = id.generated + 1]

\* a caller asks for the node id
GetOrCreateNodeId(n) ==
    LET after == getOrCreateNodeId(identity[n], storageFull[n])
    IN  /\ identity[n].idCalls < MaxIdentityCalls
        /\ identity' = [identity EXCEPT ![n] = [after EXCEPT !.idCalls = @ + 1]]
        /\ thrown' = [thrown EXCEPT ![n] =
               IF after.nodeId = NoKey THEN QuotaExceededError ELSE Null]
        /\ UNCHANGED <<hubVars, connVars, appVars, relayVars, nextId, origin, handled,
                       nextKey, peerLost, messageMesh, keyMesh, broadcasts,
                       decrypted, dedupe, adminStore, storageFull>>

\* App.handleInitAdmin: initializeAdminMode with the pair it returns
InitializeAdminMode(n) ==
    /\ identity[n].adminCalls < MaxIdentityCalls
    /\ initializeAdminMode(n, MaxJoinKeyPairs)
    /\ identity' = [identity EXCEPT ![n] =
           [@ EXCEPT !.adminCalls = @ + 1,
                     !.returnedPair = adminStore'[n].privateKey]]
    /\ UNCHANGED <<hubVars, connVars, appVars, relayVars, nextId, origin, handled,
                   thrown, peerLost, messageMesh, keyMesh, broadcasts,
                   decrypted, dedupe, storageFull>>

(***************************************************************************)
(* Admin join: E2EService.                                                 *)
(***************************************************************************)
\* tryDecryptMessage up to its first await: the envelopes are looked up in
\* the store when the listener is called
tryDecryptStart(id, mm, km) ==
    IF /\ HasId(mm, id) /\ HasId(km, id)
       /\ FindById(mm, id).type = "e2e"
       /\ FindById(km, id).to = "admin"
    THEN <<[msg_id |-> id, storedMessage |-> FindById(mm, id),
            storedKey |-> FindById(km, id)]>>
    ELSE <<>>

\* every E2EService instance has registered one listener of each kind
Repeat(seq, k) == [i \in 1..(k * Len(seq)) |-> seq[1]]

messageListeners(n, message, mm, km) ==
    IF message.type = "e2e" /\ isAdminMode(n)
    THEN Repeat(tryDecryptStart(message.msg_id, mm, km), e2eServices[n])
    ELSE <<>>

keyListeners(n, key, mm, km) ==
    IF isAdminMode(n)
    THEN Repeat(tryDecryptStart(key.msg_id, mm, km), e2eServices[n])
    ELSE <<>>

\* faulty variant of tryDecryptFinish: a failed unwrap or open is not noticed
tryDecryptFinish_IgnoresFailure(n, join, dec) ==
    saveDecryptedMessage(storageFull[n], dec,
        [msg_id |-> join.msg_id, content |-> join.storedMessage.payload.sealed,
         from |-> join.storedMessage.from,
         messagePath |-> join.storedMessage.hops,
         keyPath |-> <<join.storedKey.from>>])

\* tryDecryptMessage after its first await: the new decrypted collection
tryDecryptFinish(n, join, dec) ==
    LET adminPrivateKey == getAdminPrivateKey(n)
        sessionKey == unwrapSessionKey(join.storedKey.wrapped_key, adminPrivateKey)
        content == decryptMessage(join.storedMessage.payload, sessionKey)
    IN  IF adminPrivateKey = NoKey \/ sessionKey = CryptoError \/ content = CryptoError
        THEN dec
        ELSE saveDecryptedMessage(storageFull[n], dec,
                 [msg_id |-> join.msg_id, content |-> content,
                  from |-> join.storedMessage.from,
                  messagePath |-> join.storedMessage.hops,
                  keyPath |-> <<join.storedKey.from>>])

\* a suspended tryDecryptMessage resumes
JoinStep(n) ==
    /\ joins[n] # <<>>
    /\ decrypted' = [decrypted EXCEPT ![n] = tryDecryptFinish(n, Head(joins[n]), @)]
    /\ joins' = [joins EXCEPT ![n] = Tail(@)]
    /\ UNCHANGED <<hubVars, connVars, appVars, obsVars, ws, meshPeers, reconnectAttempts,
                   reconnectTimers, e2eServices, messageMesh, keyMesh,
                   broadcasts, dedupe, adminStore, identity, storageFull>>

(***************************************************************************)
(* Node relay: MeshNetwork.  The handlers below transform a view of the    *)
(* node: its localStorage collections, its suspended joins, its handler    *)
(* dispatch counts and the frames in flight to the hub.                    *)
(***************************************************************************)
NodeView(n) ==
    [messageMesh |-> messageMesh[n], keyMesh |-> keyMesh[n],
     dedupe |-> dedupe[n], joins |-> joins[n], handled |-> handled[n],
     outbox |-> outbox]

Commit(n, st) ==
    /\ messageMesh' = [messageMesh EXCEPT ![n] = st.messageMesh]
    /\ keyMesh' = [keyMesh EXCEPT ![n] = st.keyMesh]
    /\ dedupe' = [dedupe EXCEPT ![n] = st.dedupe]
    /\ joins' = [joins EXCEPT ![n] = st.joins]
    /\ handled' = [handled EXCEPT ![n] = st.handled]
    /\ outbox' = st.outbox

\* isConnected(): this.ws !== null && this.ws.readyState === OPEN
isConnected(n) == ws[n] # NoSession /\ cstate[ws[n]] = "open"

sendToServer(n, st, frame) ==
    IF isConnected(n)
    THEN [st EXCEPT !.outbox[ws[n]] = Append(@, frame)]
    ELSE st

\* this.messageHandlers.forEach((handler) => handler(message))
messageHandlers(n, st, message) ==
    [st EXCEPT !.handled[message.msg_id] = @ + 1,
               !.joins = @ \o messageListeners(n, message, st.messageMesh, st.keyMesh)]

\* this.keyHandlers.forEach((handler) => handler(key))
keyHandlers(n, st, key) ==
    [st EXCEPT !.joins = @ \o keyListeners(n, key, st.messageMesh, st.keyMesh)]

\* faulty variant of the forward test: an exhausted envelope is forwarded too
ShouldForward_Exhausted(message) == message.ttl >= 0

\* the test of handleMessageEnvelope that guards the forward
ShouldForward(message) == message.ttl > 0

\* faulty variant of forwardMessageEnvelope: the envelope goes on as received
forwardMessageEnvelope_Unrecorded(n, st, message) ==
    sendToServer(n, st, MeshFrameOut(message, Null))

forwardMessageEnvelope(n, st, message) ==
    sendToServer(n, st, MeshFrameOut(addHop(n, message), Null))

handleMessageEnvelope(n, st, message) ==
    IF isDuplicate(st.dedupe, message.msg_id) THEN st
    ELSE LET marked == [st EXCEPT !.dedupe = markAsProcessed(storageFull[n], @, message.msg_id)]
             saved == [marked EXCEPT !.messageMesh = saveMessageEnvelope(storageFull[n], @, message)]
             dispatched == messageHandlers(n, saved, message)
         IN  IF ShouldForward(message)
             THEN forwardMessageEnvelope(n, dispatched, message)
             ELSE dispatched

\* faulty variant of handleKeyEnvelope: the key envelope is relayed onward
handleKeyEnvelope_Forwards(n, st, key) ==
    IF isDuplicate(st.dedupe, key.msg_id) THEN st
    ELSE LET marked == [st EXCEPT !.dedupe = markAsProcessed(storageFull[n], @, key.msg_id)]
             saved == [marked EXCEPT !.keyMesh = saveKeyEnvelope(storageFull[n], @, key)]
         IN  sendToServer(n, keyHandlers(n, saved, key), MeshFrameOut(key, "key"))

handleKeyEnvelope(n, st, key) ==
    IF isDuplicate(st.dedupe, key.msg_id) THEN st
    ELSE LET marked == [st EXCEPT !.dedupe = markAsProcessed(storageFull[n], @, key.msg_id)]
             saved == [marked EXCEPT !.keyMesh = saveKeyEnvelope(storageFull[n], @, key)]
         IN  keyHandlers(n, saved, key)

broadcastMessage(n, st, message) ==
    LET saved == [st EXCEPT !.messageMesh = saveMessageEnvelope(storageFull[n], @, message)]
        dispatched == messageHandlers(n, saved, message)
    IN  sendToServer(n, dispatched, MeshFrameOut(message, Null))

broadcastKeyEnvelope(n, st, key) ==
    LET saved == [st EXCEPT !.keyMesh = saveKeyEnvelope(storageFull[n], @, key)]
        dispatched == keyHandlers(n, saved, key)
    IN  sendToServer(n, dispatched, MeshFrameOut(key, "key"))

\* the node is connected and registered: its socket is open at both ends and
\* the hub has handled the register frame sent on it
Registered(n) ==
    /\ isConnected(n)
    /\ hstate[ws[n]] = "open"
    /\ hpeerId[ws[n]] = n

Originate(id, type, ttl, pub, src) ==
    /\ nextId' = id + 1
    /\ UNCHANGED nextKey
    /\ origin' = [origin EXCEPT ![id] =
           [ttl |-> ttl, type |-> type, wrappedTo |-> pub, src |-> src,
            links |-> [n \in Nodes |-> IF Registered(n) THEN ws[n] ELSE NoSession]]]

\* connectToServer: new WebSocket(url); this.ws = ws
connectToServer(n, s) ==
    /\ FreshSession(s)
    /\ cstate' = [cstate EXCEPT ![s] = "connecting"]
    /\ owner' = [owner EXCEPT ![s] = n]
    /\ ws' = [ws EXCEPT ![n] = s]

\* initialize(), called by App, BroadcastService and ConnectionStatus
Initialize(n) ==
    /\ \E s \in Sessions : connectToServer(n, s)
    /\ UNCHANGED <<hubVars, rawSent, appVars, storeVars, obsVars, meshPeers,
                   reconnectAttempts, reconnectTimers, e2eServices, joins>>

\* the setTimeout callback scheduled by ws.onclose
ReconnectTimer(n) ==
    /\ reconnectTimers[n] > 0
    /\ reconnectTimers' = [reconnectTimers EXCEPT ![n] = @ - 1]
    /\ \E s \in Sessions : connectToServer(n, s)
    /\ UNCHANGED <<hubVars, rawSent, appVars, storeVars, obsVars, meshPeers,
                   reconnectAttempts, e2eServices, joins>>

\* ws.onopen; the hub's connection handler runs for the accepted socket
OnOpen(s) ==
    /\ cstate[s] = "connecting" /\ owner[s] # Null
    /\ cstate' = [cstate EXCEPT ![s] = "open"]
    /\ hstate' = [hstate EXCEPT ![s] = "open"]
    /\ reconnectAttempts' = [reconnectAttempts EXCEPT ![owner[s]] = 0]
    /\ outbox' = [outbox EXCEPT ![s] = Append(@, RegisterFrame(owner[s]))]
    /\ UNCHANGED <<peers, hpeerId, inbox, gwVars, owner, rawSent, appVars, storeVars,
                   obsVars, ws, meshPeers, reconnectTimers, e2eServices, joins>>

\* this.peerLostHandlers.forEach((handler) => peerIds.forEach(handler)),
\* with the one handler ConnectionStatus registers
peerLostHandlers(lost, peerIds) ==
    [p \in PeerIds |-> IF p \in peerIds THEN lost[p] + 1 ELSE lost[p]]

\* faulty variant of the reconnect test: the relay never gives up
MayReconnect_Always(attempts) == attempts >= 0

\* the test of ws.onclose that guards the reconnect
MayReconnect(attempts) == attempts < maxReconnectAttempts

\* ws.onclose: the peer set is cleared before the handlers are handed
\* Array.from(this.peers)
OnClose(s) ==
    LET n == owner[s]
        cleared == {}
        notified == cleared
    IN  /\ cstate[s] \in {"connecting", "open", "closing"} /\ n # Null
        /\ MayClose(s)
        /\ reconnectTimers[n] < MaxTimers
        /\ cstate' = [cstate EXCEPT ![s] = "closed"]
        /\ meshPeers' = [meshPeers EXCEPT ![n] = cleared]
        /\ peerLost' = [peerLost EXCEPT ![n] = peerLostHandlers(@, notified)]
        /\ IF MayReconnect(reconnectAttempts[n])
           THEN /\ reconnectAttempts' = [reconnectAttempts EXCEPT ![n] = @ + 1]
                /\ reconnectTimers' = [reconnectTimers EXCEPT ![n] = @ + 1]
           ELSE UNCHANGED <<reconnectAttempts, reconnectTimers>>
        /\ UNCHANGED <<hubVars, owner, rawSent, appVars, storeVars, nextId, origin,
                       handled, nextKey, thrown, ws, e2eServices, joins>>

\* disconnect(): this.ws.close() starts the closing handshake (readyState
\* CLOSING: no message event is fired any more, onclose is still to come)
Disconnect(n) ==
    /\ IF ws[n] # NoSession
       THEN /\ cstate' = [cstate EXCEPT ![ws[n]] =
                   IF @ \in {"connecting", "open"} THEN "closing" ELSE @]
            /\ ws' = [ws EXCEPT ![n] = NoSession]
       ELSE UNCHANGED <<cstate, ws>>
    /\ meshPeers' = [meshPeers EXCEPT ![n] = {}]
    /\ UNCHANGED <<hubVars, owner, rawSent, appVars, storeVars, obsVars,
                   reconnectAttempts, reconnectTimers, e2eServices, joins>>

\* the hub reads the next frame a node sent: ws.on('message')
HubReceive(s) ==
    /\ owner[s] # Null
    /\ outbox[s] # <<>>
    /\ HubOnMessage(s, Head(outbox[s]))
    /\ outbox' = [outbox EXCEPT ![s] = Tail(@)]
    /\ UNCHANGED <<hstate, gwVars, connVars, appVars, nodeVars>>

\* the hub sees the socket of a node close: ws.on('close')
HubClose(s) ==
    /\ owner[s] # Null
    /\ MayClose(s)
    /\ HubOnClose(s)
    /\ UNCHANGED <<outbox, gwVars, connVars, appVars, nodeVars>>

\* ws.onmessage
OnMessage(s) ==
    LET n == owner[s]
        message == Head(inbox[s])
    IN  /\ cstate[s] = "open" /\ n # Null
        /\ inbox[s] # <<>>
        /\ inbox' = [inbox EXCEPT ![s] = Tail(@)]
        /\ IF message.type = "mesh_message"
           THEN /\ Commit(n, IF message.envelopeType = "key"
                             THEN handleKeyEnvelope(n, NodeView(n), message.envelope)
                             ELSE handleMessageEnvelope(n, NodeView(n), message.envelope))
                /\ UNCHANGED <<meshPeers, peerLost>>
           ELSE /\ meshPeers' = [meshPeers EXCEPT ![n] =
                       IF message.type = "peer_list" THEN @ \cup message.peers
                       ELSE IF message.type = "peer_connected" THEN @ \cup {message.peerId}
                       ELSE @ \ {message.peerId}]
                /\ peerLost' = [peerLost EXCEPT ![n] =
                       IF message.type = "peer_disconnected"
                       THEN peerLostHandlers(@, {message.peerId} \cap meshPeers[n])
                       ELSE @]
                /\ UNCHANGED <<outbox, messageMesh, keyMesh, dedupe, joins,
                               handled>>
        /\ UNCHANGED <<peers, hstate, hpeerId, gwVars, connVars, appVars, ws,
                       reconnectAttempts, reconnectTimers, e2eServices,
                       broadcasts, decrypted, adminStore, identity, storageFull, nextId,
                       origin, nextKey, thrown>>

(***************************************************************************)
(* Services on a node: BroadcastService, E2EService, and direct callers of *)
(* MeshNetwork.broadcastMessage.                                           *)
(***************************************************************************)
\* new E2EService(): initialize() and setupMessageListeners()
NewE2EService(n) ==
    /\ e2eServices[n] < MaxE2EServices
    /\ e2eServices' = [e2eServices EXCEPT ![n] = @ + 1]
    /\ \E s \in Sessions : connectToServer(n, s)
    /\ UNCHANGED <<hubVars, rawSent, appVars, storeVars, obsVars, meshPeers,
                   reconnectAttempts, reconnectTimers, joins>>

\* what an origination on a node leaves alone
OriginationFrame ==
    UNCHANGED <<peers, hstate, hpeerId, inbox, gwVars, connVars, appVars, ws, meshPeers,
                reconnectAttempts, reconnectTimers, e2eServices, decrypted,
                adminStore, identity, storageFull, nextKey, peerLost>>

\* BroadcastService.createBroadcast
CreateBroadcast(n) ==
    LET message == createBroadcastMessage(n, nextId)
    IN  /\ nextId <= MaxMsgs
        /\ broadcasts' = [broadcasts EXCEPT ![n] = saveBroadcast(storageFull[n], @, message)]
        /\ Commit(n, broadcastMessage(n, NodeView(n), message))
        /\ Originate(nextId, "broadcast", message.ttl, NoKey, n)
        /\ thrown' = [thrown EXCEPT ![n] = Null]
        /\ OriginationFrame

\* MeshNetwork.broadcastMessage called with an envelope of the caller's making
BroadcastMessage(n, ttl) ==
    LET message == [createBroadcastMessage(n, nextId) EXCEPT !.ttl = ttl]
    IN  /\ nextId <= MaxMsgs
        /\ Commit(n, broadcastMessage(n, NodeView(n), message))
        /\ Originate(nextId, "broadcast", ttl, NoKey, n)
        /\ thrown' = [thrown EXCEPT ![n] = Null]
        /\ UNCHANGED broadcasts
        /\ OriginationFrame

\* the error createE2EMessage throws without an admin public key
NoAdminPublicKey == "Admin public key not available"

\* faulty variant of the test: a missing admin public key goes unnoticed
NoPublicKey_Never(adminPublicKey) == FALSE

\* !adminPublicKey
NoPublicKey(adminPublicKey) == adminPublicKey = NoKey

\* E2EService.createE2EMessage: the test of the admin public key, then from
\* the saves on (all awaits are before them)
CreateE2EMessage(n) ==
    LET adminPublicKey == getAdminPublicKey(n)
        messageEnvelope == createE2EMessageEnvelope(n, nextId)
        keyEnvelope == createKeyEnvelope(n, nextId, adminPublicKey)
        saved == [NodeView(n) EXCEPT
                     !.messageMesh = saveMessageEnvelope(storageFull[n], @, messageEnvelope),
                     !.keyMesh = saveKeyEnvelope(storageFull[n], @, keyEnvelope)]
        sentMessage == broadcastMessage(n, saved, messageEnvelope)
    IN  /\ e2eServices[n] > 0
        /\ IF NoPublicKey(adminPublicKey)
           THEN /\ thrown' = [thrown EXCEPT ![n] = NoAdminPublicKey]
                /\ UNCHANGED <<hubVars, connVars, appVars, relayVars, storeVars, nextId,
                               origin, handled, nextKey, peerLost>>
           ELSE /\ nextId <= MaxMsgs
                /\ Commit(n, broadcastKeyEnvelope(n, sentMessage, keyEnvelope))
                /\ Originate(nextId, "e2e", messageEnvelope.ttl, adminPublicKey, n)
                /\ thrown' = [thrown EXCEPT ![n] = Null]
                /\ UNCHANGED broadcasts
                /\ OriginationFrame

(***************************************************************************)
(* PWA gateway: POST /gateway/submit on the hub.                           *)
(***************************************************************************)
\* peers.forEach((ws) => { if (ws.readyState === OPEN) ws.send(message) })
sendToAll(ib, message) ==
    [t \in Sessions |->
        IF hstate[t] = "open"
        THEN ib[t] \o Copies(message, Cardinality({q \in PeerIds : peers[q] = t}))
        ELSE ib[t]]

\* the bodies a client posts: encryptedPayload and msgId are there or not,
\* wrappedKey is missing (NoKey) or a session key wrapped to a public key
GatewayBodies ==
    [encryptedPayload : BOOLEAN, wrappedKey : 0..MaxKeyPairs, msgId : BOOLEAN]

\* the body with all three fields, the session key wrapped to pub
GatewayBody(pub) == [encryptedPayload |-> TRUE, wrappedKey |-> pub, msgId |-> TRUE]

\* the public keys admins have generated and shared so far
SharedKeys == 1..(nextKey - 1)

\* faulty variant of the field test: a missing wrappedKey goes unnoticed
MissingField_IgnoresKey(body) == ~body.encryptedPayload \/ ~body.msgId

\* !encryptedPayload || !wrappedKey || !msgId
MissingField(body) ==
    ~body.encryptedPayload \/ body.wrappedKey = NoKey \/ ~body.msgId

\* faulty variant of the key frame: envelopeType is left out
GatewayKeyFrame_Unmarked(keyEnvelope) == MeshFrameIn(keyEnvelope, "gateway", Null)

\* keyMessage of the setTimeout callback
GatewayKeyFrame(keyEnvelope) == MeshFrameIn(keyEnvelope, "gateway", "key")

\* POST /gateway/submit
GatewaySubmit(body) ==
    LET pub == body.wrappedKey
        messageEnvelope ==
            [msg_id |-> nextId, type |-> "e2e", from |-> "gateway_user",
             to |-> "admin", ttl |-> GATEWAY_TTL, hops |-> <<"gateway">>,
             payload |-> [sealed |-> nextId]]
        keyEnvelope ==
            [msg_id |-> nextId, from |-> "gateway_user", to |-> "admin",
             wrapped_key |-> [pub |-> pub, sk |-> nextId]]
    IN  IF MissingField(body)
        THEN /\ gwResponse' = 400
             /\ UNCHANGED <<peers, hstate, hpeerId, inbox, outbox, gwTimers,
                            connVars, appVars, nodeVars>>
        ELSE /\ nextId <= MaxMsgs
             /\ inbox' = sendToAll(inbox, MeshFrameIn(messageEnvelope, "gateway", Null))
             /\ gwTimers' = Append(gwTimers, GatewayKeyFrame(keyEnvelope))
             /\ gwResponse' = 200
             /\ Originate(nextId, "e2e", GATEWAY_TTL, pub, "gateway")
             /\ UNCHANGED <<peers, hstate, hpeerId, outbox, connVars, appVars, relayVars,
                            storeVars, handled, nextKey, thrown, peerLost>>

\* the setTimeout callback of a submit: the key frame goes out
GatewayTimer ==
    /\ gwTimers # <<>>
    /\ inbox' = sendToAll(inbox, Head(gwTimers))
    /\ gwTimers' = Tail(gwTimers)
    /\ UNCHANGED <<peers, hstate, hpeerId, outbox, gwResponse, connVars, appVars, nodeVars>>

(***************************************************************************)
(* The hub with arbitrary clients: any client may open a connection and    *)
(* send any register or mesh_message frame over it.                        *)
(***************************************************************************)
RawEnvelope == [msg_id |-> 0]

RawConnect(s) ==
    /\ FreshSession(s)
    /\ s <= MaxRawSessions
    /\ cstate' = [cstate EXCEPT ![s] = "open"]
    /\ hstate' = [hstate EXCEPT ![s] = "open"]
    /\ UNCHANGED <<peers, hpeerId, inbox, outbox, gwVars, owner, rawSent, appVars, nodeVars>>

RawRegister(s, p) ==
    /\ cstate[s] = "open" /\ owner[s] = Null
    /\ rawSent < MaxRawFrames
    /\ rawSent' = rawSent + 1
    /\ HubOnMessage(s, RegisterFrame(p))
    /\ UNCHANGED <<hstate, outbox, gwVars, cstate, owner, appVars, nodeVars>>

RawMesh(s, etype) ==
    /\ cstate[s] = "open" /\ owner[s] = Null
    /\ rawSent < MaxRawFrames
    /\ rawSent' = rawSent + 1
    /\ HubOnMessage(s, MeshFrameOut(RawEnvelope, etype))
    /\ UNCHANGED <<hstate, outbox, gwVars, cstate, owner, appVars, nodeVars>>

\* the client reads the next frame
RawReceive(s) ==
    /\ cstate[s] = "open" /\ owner[s] = Null
    /\ inbox[s] # <<>>
    /\ inbox' = [inbox EXCEPT ![s] = Tail(@)]
    /\ UNCHANGED <<peers, hstate, hpeerId, outbox, gwVars, cstate, owner, rawSent, appVars, nodeVars>>

RawClose(s) ==
    /\ cstate[s] = "open" /\ owner[s] = Null
    /\ cstate' = [cstate EXCEPT ![s] = "closed"]
    /\ HubOnClose(s)
    /\ UNCHANGED <<outbox, gwVars, owner, rawSent, appVars, nodeVars>>

\* a socket that is closed at both ends and that nothing refers to any more
\* is collected: its number is free for the next new WebSocket
Reclaim(s) ==
    /\ cstate[s] = "closed" /\ hstate[s] # "open"
    /\ owner[s] # Null
    /\ \A n \in Nodes : ws[n] # s
    /\ \A p \in PeerIds : peers[p] # s
    /\ cstate' = [cstate EXCEPT ![s] = "free"]
    /\ hstate' = [hstate EXCEPT ![s] = "none"]
    /\ hpeerId' = [hpeerId EXCEPT ![s] = Null]
    /\ owner' = [owner EXCEPT ![s] = Null]
    /\ inbox' = [inbox EXCEPT ![s] = <<>>]
    /\ outbox' = [outbox EXCEPT ![s] = <<>>]
    /\ UNCHANGED <<peers, gwVars, rawSent, appVars, nodeVars>>

(***************************************************************************)
(* The environment of MessageStore.                                        *)
(***************************************************************************)
\* localStorage of node n reaches its quota: setItem throws from now on
StorageFills(n) ==
    /\ ~storageFull[n]
    /\ storageFull' = [storageFull EXCEPT ![n] = TRUE]
    /\ UNCHANGED <<hubVars, connVars, appVars, relayVars, obsVars, messageMesh, keyMesh,
                   broadcasts, decrypted, dedupe, adminStore, identity>>

\* the msg_ids handed to markAsProcessed: 1, the oldest and the newest id of
\* the list, and the id after the newest one
MarkIds(dd) ==
    {1} \cup (IF dd = <<>> THEN {}
              ELSE {Head(dd), dd[Len(dd)]}
                   \cup ({dd[Len(dd)] + 1} \cap (1..MaxMarkId)))

\* MessageStore.markAsProcessed(msgId) on node n
MarkAsProcessed(n, id) ==
    /\ dedupe' = [dedupe EXCEPT ![n] = markAsProcessed(storageFull[n], @, id)]
    /\ UNCHANGED <<hubVars, connVars, appVars, relayVars, obsVars, messageMesh, keyMesh,
                   broadcasts, decrypted, adminStore, identity, storageFull>>

\* the dedupe lists of the nodes are independent: one of them is exercised
DedupeNode == CHOOSE n \in Nodes : TRUE

(***************************************************************************)
(* DeliveryManager (application_project/backend/DeliveryManager.ts) and    *)
(* the delivered flag of Database.  A call that reaches an await is kept   *)
(* in `awaiting` until the awaited promise settles; timers fire and other  *)
(* calls run in between.  For one message at most one call of each method  *)
(* is suspended at a time.                                                 *)
(***************************************************************************)
\* the calls that can be suspended at an await
PendingCalls ==
    [op : {"handleAckTimeout", "markAsFailed", "ackReceived", "retryMessage"},
     messageId : 1..MaxDeliveryIds, wasPending : BOOLEAN]

\* pendingMessages.get(messageId) of an id that is not tracked
NoStatus == [status |-> "none", attempts |-> 0]

\* cleanup(messageId): clear and forget the timer retryTimers holds, forget
\* the status
cleanup(d, id) ==
    [d EXCEPT !.timeouts = {t \in @ : t.handle # d.retryTimers[id]},
              !.retryTimers[id] = 0,
              !.pendingMessages[id] = NoStatus]

\* trackMessage(messageId, retryCallback): a fresh pending status with no
\* attempts, and a new ACK timeout whose handle replaces the one retryTimers
\* holds
trackMessage(d, id, retryCallback) ==
    [d EXCEPT !.pendingMessages[id] = [status |-> "pending", attempts |-> 0],
              !.timeouts = @ \cup {[handle |-> d.nextTimeout, messageId |-> id,
                                    retryCallback |-> retryCallback]},
              !.retryTimers[id] = d.nextTimeout,
              !.nextTimeout = @ + 1]

\* markAsFailed(messageId) up to its await: Database.updateDeliveryStatus
\* assigns message.delivered before it awaits saveData
markAsFailed(d, id) ==
    IF d.pendingMessages[id] = NoStatus
    THEN d
    ELSE [d EXCEPT !.pendingMessages[id].status = "failed",
                   !.delivered[id] = "false",
                   !.awaiting = @ \cup {[op |-> "markAsFailed", messageId |-> id,
                                         wasPending |-> FALSE]}]

\* the application tracks a message it has just sent
TrackMessage(id, retryCallback) ==
    /\ id \notin delivery.tracked
    /\ delivery.nextTimeout <= MaxDeliveryTimers
    /\ delivery' = [trackMessage(delivery, id, retryCallback)
                       EXCEPT !.tracked = @ \cup {id}]
    /\ UNCHANGED <<hubVars, connVars, nodeVars, hybrid, cache>>

\* an armed timeout fires: handleAckTimeout(messageId, retryCallback) up to
\* its first await
HandleAckTimeout(t) ==
    LET id == t.messageId
        fired == [delivery EXCEPT !.timeouts = @ \ {t}]
        status == delivery.pendingMessages[id]
        counted == [fired EXCEPT !.pendingMessages[id].attempts = @ + 1]
    IN  /\ t \in delivery.timeouts
        /\ Cardinality(delivery.awaiting) < MaxAwaiting
        /\ IF status = NoStatus
           THEN delivery' = fired
           ELSE IF status.attempts + 1 < maxRetries /\ t.retryCallback
           THEN /\ delivery.retryCalls[id] < MaxRetryCalls
                /\ \A c \in delivery.awaiting :
                       c.op = "handleAckTimeout" => c.messageId # id
                /\ delivery' =
                     [counted EXCEPT !.retryCalls[id] = @ + 1,
                                     !.awaiting = @ \cup
                                         {[op |-> "handleAckTimeout",
                                           messageId |-> id,
                                           wasPending |-> FALSE]}]
           ELSE /\ \A c \in delivery.awaiting :
                       c.op = "markAsFailed" => c.messageId # id
                /\ delivery' = markAsFailed(counted, id)
        /\ UNCHANGED <<hubVars, connVars, nodeVars, hybrid, cache>>

\* the retry callback awaited by handleAckTimeout settles (a rejection is
\* handled like false)
RetryCallbackReturns(c, retrySuccess) ==
    LET id == c.messageId
        rest == [delivery EXCEPT !.awaiting = @ \ {c}]
    IN  /\ c \in delivery.awaiting
        /\ c.op = "handleAckTimeout"
        /\ IF retrySuccess
           THEN /\ delivery.nextTimeout <= MaxDeliveryTimers
                /\ delivery' =
                     [rest EXCEPT !.timeouts = @ \cup
                                      {[handle |-> delivery.nextTimeout,
                                        messageId |-> id,
                                        retryCallback |-> TRUE]},
                                  !.retryTimers[id] = delivery.nextTimeout,
                                  !.nextTimeout = @ + 1]
           ELSE /\ \A other \in delivery.awaiting :
                       other.op = "markAsFailed" => other.messageId # id
                /\ delivery' = markAsFailed(rest, id)
        /\ UNCHANGED <<hubVars, connVars, nodeVars, hybrid, cache>>

\* ackReceived(messageId) up to its await
AckReceived(id) ==
    /\ delivery.pendingMessages[id] # NoStatus
    /\ Cardinality(delivery.awaiting) < MaxAwaiting
    /\ \A c \in delivery.awaiting : c.op = "ackReceived" => c.messageId # id
    /\ delivery' =
         [delivery EXCEPT !.pendingMessages[id].status = "delivered",
                          !.delivered[id] = "true",
                          !.awaiting = @ \cup
                              {[op |-> "ackReceived", messageId |-> id,
                                wasPending |->
                                    delivery.pendingMessages[id].status = "pending"]}]
    /\ UNCHANGED <<hubVars, connVars, nodeVars, hybrid, cache>>

\* the database update awaited by ackReceived or markAsFailed settles: the
\* call goes on to cleanup(messageId)
DatabaseUpdateReturns(c) ==
    /\ c \in delivery.awaiting
    /\ c.op \in {"ackReceived", "markAsFailed"}
    /\ delivery' = cleanup([delivery EXCEPT !.awaiting = @ \ {c}], c.messageId)
    /\ UNCHANGED <<hubVars, connVars, nodeVars, hybrid, cache>>

\* retryMessage(messageId, retryCallback) up to its await
RetryMessage(id) ==
    /\ delivery.pendingMessages[id] # NoStatus
    /\ delivery.pendingMessages[id].attempts < maxRetries
    /\ delivery.retryCalls[id] < MaxRetryCalls
    /\ Cardinality(delivery.awaiting) < MaxAwaiting
    /\ \A c \in delivery.awaiting : c.op = "retryMessage" => c.messageId # id
    /\ delivery' =
         [delivery EXCEPT !.pendingMessages[id].attempts = @ + 1,
                          !.retryCalls[id] = @ + 1,
                          !.awaiting = @ \cup
                              {[op |-> "retryMessage", messageId |-> id,
                                wasPending |-> FALSE]}]
    /\ UNCHANGED <<hubVars, connVars, nodeVars, hybrid, cache>>

\* the retry callback awaited by retryMessage settles
RetryMessageReturns(c, success) ==
    LET id == c.messageId
        rest == [delivery EXCEPT !.awaiting = @ \ {c}]
    IN  /\ c \in delivery.awaiting
        /\ c.op = "retryMessage"
        /\ IF success
           THEN /\ delivery.nextTimeout <= MaxDeliveryTimers
                /\ delivery' = trackMessage(cleanup(rest, id), id, TRUE)
           ELSE delivery' = rest
        /\ UNCHANGED <<hubVars, connVars, nodeVars, hybrid, cache>>

(***************************************************************************)
(* HybridMeshService (application_project/services/HybridMeshService.ts):  *)
(* sendMessage, the retry queue and the discovery cycle.  Nothing ever     *)
(* adds to wifiP2PConnections, so sendViaWiFiDirect never succeeds and     *)
(* only the BLE path transmits.                                            *)
(***************************************************************************)
\* sendViaBLE(message): one write per connection; a connection whose write
\* fails (it is not in ok) is deleted
sendViaBLE(h, id, ok) ==
    [h |-> [h EXCEPT !.writes = [d \in DOMAIN @ |->
                                    IF d \in h.bleConnections \cap ok
                                    THEN [@[d] EXCEPT ![id] = @ + 1]
                                    ELSE @[d]],
                     !.bleConnections = @ \cap ok],
     success |-> h.bleConnections \cap ok # {}]

\* sendMessage(message): the state it leaves and the boolean it resolves to
sendMessage(h, id, ok) ==
    IF ~h.isActive
    THEN [h |-> h, success |-> FALSE]
    ELSE IF id \in h.sentMessages
    THEN [h |-> h, success |-> TRUE]
    ELSE LET marked == [h EXCEPT !.sentMessages = @ \cup {id}]
             sent == IF marked.bleConnections # {}
                     THEN sendViaBLE(marked, id, ok)
                     ELSE [h |-> marked, success |-> FALSE]
         IN  IF sent.success
             THEN sent
             ELSE [h |-> [sent.h EXCEPT !.messageQueue = Append(@, id)],
                   success |-> FALSE]

\* the loop of processMessageQueue over messagesToRetry
RECURSIVE processMessageQueue(_, _, _)
processMessageQueue(h, messagesToRetry, ok) ==
    IF messagesToRetry = <<>>
    THEN h
    ELSE LET sent == sendMessage(h, Head(messagesToRetry), ok)
             after == IF ~sent.success /\ Len(sent.h.messageQueue) < 50
                      THEN [sent.h EXCEPT !.messageQueue =
                                              Append(@, Head(messagesToRetry))]
                      ELSE sent.h
         IN  processMessageQueue(after, Tail(messagesToRetry), ok)

\* joinMesh()
JoinMesh ==
    /\ ~hybrid.isActive
    /\ hybrid' = [hybrid EXCEPT !.isActive = TRUE]
    /\ UNCHANGED <<hubVars, connVars, nodeVars, delivery, cache>>

\* handleBLEDeviceDiscovered / connectToBLEDevice(deviceId) succeeds
ConnectToBLEDevice(deviceId) ==
    /\ hybrid.isActive
    /\ Cardinality(hybrid.bleConnections) < 5
    /\ deviceId \notin hybrid.bleConnections
    /\ hybrid' = [hybrid EXCEPT !.bleConnections = @ \cup {deviceId}]
    /\ UNCHANGED <<hubVars, connVars, nodeVars, delivery, cache>>

\* the application calls sendMessage(message); the writes to the
\* connections in ok succeed
SendMessage(id, ok) ==
    /\ ok \subseteq hybrid.bleConnections
    /\ hybrid' = sendMessage(hybrid, id, ok).h
    /\ hybrid' # hybrid
    /\ UNCHANGED <<hubVars, connVars, nodeVars, delivery, cache>>

\* one tick of the discovery interval: processMessageQueue()
DiscoveryCycle(ok) ==
    /\ hybrid.isActive
    /\ hybrid.messageQueue # <<>>
    /\ ok \subseteq hybrid.bleConnections
    /\ hybrid' = processMessageQueue([hybrid EXCEPT !.messageQueue = <<>>],
                                     hybrid.messageQueue, ok)
    /\ UNCHANGED <<hubVars, connVars, nodeVars, delivery, cache>>

(***************************************************************************)
(* CacheManager (application_project/mesh/CacheManager.ts).                *)
(***************************************************************************)
\* cleanOldEntries(): drop the ids whose timestamp is older than cacheTimeout
cleanOldEntries(c) ==
    LET expiredIds == {id \in DOMAIN c.cacheTimestamps :
                          c.now - c.cacheTimestamps[id] > cacheTimeout}
    IN  [c EXCEPT !.messageCache = @ \ expiredIds,
                  !.cacheTimestamps = [id \in (DOMAIN @) \ expiredIds |-> @[id]]]

\* addMessage(messageId)
addMessage(c, messageId) ==
    LET cleaned == IF Cardinality(c.messageCache) >= maxCacheSize
                   THEN cleanOldEntries(c)
                   ELSE c
    IN  [cleaned EXCEPT !.messageCache = @ \cup {messageId},
                        !.cacheTimestamps =
                            [id \in (DOMAIN @) \cup {messageId} |->
                                IF id = messageId THEN cleaned.now ELSE @[id]]]

\* a caller adds a message id; elapsed is the time since the previous call
AddMessage(messageId, elapsed) ==
    /\ cache.calls < MaxCacheAdds
    /\ cache.now + elapsed <= MaxClockJumps * (cacheTimeout + 1)
    /\ cache' = [addMessage([cache EXCEPT !.now = @ + elapsed], messageId)
                    EXCEPT !.calls = @ + 1,
                           !.nextId = IF messageId = @ THEN @ + 1 ELSE @]
    /\ UNCHANGED <<hubVars, connVars, nodeVars, delivery, hybrid>>

\* the mobile application before any call; the cache holds the ids 1..cached,
\* all of them added at clock reading 0
InitApp(cached) ==
    /\ delivery = [pendingMessages |-> [id \in 1..MaxDeliveryIds |-> NoStatus],
                   retryTimers |-> [id \in 1..MaxDeliveryIds |-> 0],
                   timeouts |-> {},
                   nextTimeout |-> 1,
                   delivered |-> [id \in 1..MaxDeliveryIds |-> "unset"],
                   awaiting |-> {},
                   retryCalls |-> [id \in 1..MaxDeliveryIds |-> 0],
                   tracked |-> {}]
    /\ hybrid = [isActive |-> FALSE,
                 bleConnections |-> {},
                 messageQueue |-> <<>>,
                 sentMessages |-> {},
                 writes |-> [d \in 1..MaxDevices |->
                                [id \in 1..MaxHybridMsgs |-> 0]]]
    /\ cache = [messageCache |-> 1..cached,
                cacheTimestamps |-> [id \in 1..cached |-> 0],
                now |-> 0,
                nextId |-> cached + 1,
                calls |-> 0]

\* the hub and the desktop nodes before any connection
InitMesh ==
    /\ peers = [p \in PeerIds |-> NoSession]
    /\ hstate = [s \in Sessions |-> "none"]
    /\ hpeerId = [s \in Sessions |-> Null]
    /\ inbox = [s \in Sessions |-> <<>>]
    /\ outbox = [s \in Sessions |-> <<>>]
    /\ cstate = [s \in Sessions |-> "free"]
    /\ owner = [s \in Sessions |-> Null]
    /\ rawSent = 0
    /\ gwTimers = <<>>
    /\ gwResponse = 0
    /\ ws = [n \in Nodes |-> NoSession]
    /\ meshPeers = [n \in Nodes |-> {}]
    /\ reconnectAttempts = [n \in Nodes |-> 0]
    /\ reconnectTimers = [n \in Nodes |-> 0]
    /\ e2eServices = [n \in Nodes |-> 0]
    /\ joins = [n \in Nodes |-> <<>>]
    /\ messageMesh = [n \in Nodes |-> <<>>]
    /\ keyMesh = [n \in Nodes |-> <<>>]
    /\ broadcasts = [n \in Nodes |-> <<>>]
    /\ decrypted = [n \in Nodes |-> <<>>]
    /\ dedupe = [n \in Nodes |-> <<>>]
    /\ adminStore = [n \in Nodes |-> NoAdminKeys]
    /\ identity = [n \in Nodes |-> NoIdentity]
    /\ nextId = 1
    /\ origin = [i \in MsgIds |-> NotOriginated]
    /\ handled = [n \in Nodes |-> [i \in MsgIds |-> 0]]
    /\ nextKey = 1
    /\ storageFull = [n \in Nodes |-> FALSE]
    /\ thrown = [n \in Nodes |-> Null]
    /\ peerLost = [n \in Nodes |-> [p \in PeerIds |-> 0]]

Init == InitMesh /\ InitApp(0)

NextHub ==
    \/ \E s \in Sessions : RawConnect(s)
    \/ \E s \in Sessions, p \in PeerIds : RawRegister(s, p)
    \/ \E s \in Sessions, etype \in {Null, "key"} : RawMesh(s, etype)
    \/ \E s \in Sessions : RawReceive(s)
    \/ \E s \in Sessions : RawClose(s)

SpecHub == Init /\ [][NextHub]_vars

\* broadcast traffic between nodes through the hub
NextRelay ==
    \/ \E n \in Nodes : Initialize(n)
    \/ \E n \in Nodes : ReconnectTimer(n)
    \/ \E s \in Sessions : OnOpen(s)
    \/ \E s \in Sessions : OnClose(s)
    \/ \E s \in Sessions : HubReceive(s)
    \/ \E s \in Sessions : HubClose(s)
    \/ \E s \in Sessions : OnMessage(s)
    \/ \E n \in Nodes : CreateBroadcast(n)
    \/ \E n \in Nodes, ttl \in OriginTTLs : BroadcastMessage(n, ttl)

SpecRelay == Init /\ [][NextRelay]_vars

\* e2e traffic: admin nodes, E2EService instances and the gateway
NextE2E ==
    \/ \E n \in Nodes : NewE2EService(n)
    \/ \E s \in Sessions : OnOpen(s)
    \/ \E s \in Sessions : OnClose(s)
    \/ \E s \in Sessions : HubClose(s)
    \/ \E s \in Sessions : HubReceive(s)
    \/ \E s \in Sessions : OnMessage(s)
    \/ \E n \in Nodes : InitAdmin(n)
    \/ \E n \in Nodes : ResetAdminKeys(n)
    \/ \E n \in Nodes : JoinStep(n)
    \/ \E n \in Nodes : CreateE2EMessage(n)
    \/ \E pub \in SharedKeys : GatewaySubmit(GatewayBody(pub))
    \/ GatewayTimer

SpecE2E == Init /\ [][NextE2E]_vars

\* BroadcastService on nodes whose connections stay up
NextBroadcast ==
    \/ \E n \in Nodes : Initialize(n)
    \/ \E s \in Sessions : OnOpen(s)
    \/ \E s \in Sessions : HubReceive(s)
    \/ \E s \in Sessions : OnMessage(s)
    \/ \E n \in Nodes : CreateBroadcast(n)

SpecBroadcast == Init /\ [][NextBroadcast]_vars

\* the same, with localStorage running out of quota
NextStore ==
    \/ \E n \in Nodes : Initialize(n)
    \/ \E s \in Sessions : OnOpen(s)
    \/ \E s \in Sessions : HubReceive(s)
    \/ \E s \in Sessions : OnMessage(s)
    \/ \E n \in Nodes : CreateBroadcast(n)
    \/ \E n \in Nodes : StorageFills(n)

SpecStore == Init /\ [][NextStore]_vars

\* the gateway and the hub with arbitrary clients
NextGateway ==
    \/ \E s \in Sessions : RawConnect(s)
    \/ \E s \in Sessions, p \in PeerIds : RawRegister(s, p)
    \/ \E s \in Sessions : RawReceive(s)
    \/ \E s \in Sessions : RawClose(s)
    \/ \E body \in GatewayBodies : GatewaySubmit(body)
    \/ GatewayTimer

SpecGateway == Init /\ [][NextGateway]_vars

\* the reconnect counters of the nodes are independent: one node reconnects
ReconnectNode == CHOOSE n \in Nodes : TRUE

\* BroadcastService on a node that closes its relay
NextDisconnect ==
    \/ Initialize(ReconnectNode)
    \/ ReconnectTimer(ReconnectNode)
    \/ \E s \in Sessions : OnOpen(s)
    \/ \E s \in Sessions : OnClose(s)
    \/ \E s \in Sessions : HubReceive(s)
    \/ \E s \in Sessions : HubClose(s)
    \/ \E s \in Sessions : OnMessage(s)
    \/ CreateBroadcast(ReconnectNode)
    \/ Disconnect(ReconnectNode)

SpecDisconnect == Init /\ [][NextDisconnect]_vars

\* connections that open, close and are made again
NextReconnect ==
    \/ Initialize(ReconnectNode)
    \/ ReconnectTimer(ReconnectNode)
    \/ \E s \in Sessions : OnOpen(s)
    \/ \E s \in Sessions : OnClose(s)
    \/ \E s \in Sessions : HubClose(s)
    \/ \E s \in Sessions : Reclaim(s)

SpecReconnect == Init /\ [][NextReconnect]_vars

\* the join on one admin node that writes e2e messages to itself and
\* replaces its key pair in between
JoinNode == CHOOSE n \in Nodes : TRUE

NextJoin ==
    \/ NewE2EService(JoinNode)
    \/ InitializeAdminMode(JoinNode)
    \/ ResetAdminKeys(JoinNode)
    \/ CreateE2EMessage(JoinNode)
    \/ JoinStep(JoinNode)
    \/ StorageFills(JoinNode)

SpecJoin == Init /\ [][NextJoin]_vars

\* node id and admin keys of one node
IdentityNode == CHOOSE n \in Nodes : TRUE

NextIdentity ==
    \/ GetOrCreateNodeId(IdentityNode)
    \/ InitializeAdminMode(IdentityNode)
    \/ ResetAdminKeys(IdentityNode)
    \/ StorageFills(IdentityNode)

SpecIdentity == Init /\ [][NextIdentity]_vars

\* the dedupe list under any sequence of markAsProcessed calls
NextDedupe ==
    \E id \in MarkIds(dedupe[DedupeNode]) : MarkAsProcessed(DedupeNode, id)

SpecDedupe == Init /\ [][NextDedupe]_vars

\* DeliveryManager and the database flag under any interleaving of its calls,
\* its timers and the promises it awaits
NextDelivery ==
    \/ \E id \in 1..MaxDeliveryIds, retryCallback \in BOOLEAN :
           TrackMessage(id, retryCallback)
    \/ \E t \in [handle : 1..MaxDeliveryTimers, messageId : 1..MaxDeliveryIds,
                retryCallback : BOOLEAN] : HandleAckTimeout(t)
    \/ \E c \in PendingCalls, retrySuccess \in BOOLEAN :
           RetryCallbackReturns(c, retrySuccess)
    \/ \E id \in 1..MaxDeliveryIds : AckReceived(id)
    \/ \E c \in PendingCalls : DatabaseUpdateReturns(c)
    \/ \E id \in 1..MaxDeliveryIds : RetryMessage(id)
    \/ \E c \in PendingCalls, success \in BOOLEAN :
           RetryMessageReturns(c, success)

SpecDelivery == Init /\ [][NextDelivery]_vars

\* HybridMeshService: sends, connections and discovery cycles
NextHybrid ==
    \/ JoinMesh
    \/ \E deviceId \in 1..MaxDevices : ConnectToBLEDevice(deviceId)
    \/ \E id \in 1..MaxHybridMsgs, ok \in SUBSET (1..MaxDevices) :
           SendMessage(id, ok)
    \/ \E ok \in SUBSET (1..MaxDevices) : DiscoveryCycle(ok)

SpecHybrid == Init /\ [][NextHybrid]_vars

\* CacheManager under addMessage calls, started empty or two ids short of
\* maxCacheSize
InitCache == InitMesh /\ \E cached \in {0, maxCacheSize - 2} : InitApp(cached)

NextCache ==
    \E fresh \in BOOLEAN, elapsed \in {0, cacheTimeout + 1} :
        AddMessage(IF fresh THEN cache.nextId ELSE 1, elapsed)

SpecCache == InitCache /\ [][NextCache]_vars

(***************************************************************************)
(* Hub claims.                                                             *)
(***************************************************************************)
\* the sessions the hub holds open that have registered
OpenRegistered == {t \in Sessions : hstate[t] = "open" /\ hpeerId[t] # Null}

\* C9: whenever the hub handles a mesh_message frame sent by a registered
\* session s, the fan-out frame is appended once to the inbox of every other
\* open registered session, and nothing is sent back to s.
C9_FanOutToAllOthersNoEcho ==
    [][\A s \in Sessions, etype \in {Null, "key"} :
          (RawMesh(s, etype) /\ hpeerId[s] # Null) =>
              /\ inbox'[s] = inbox[s]
              /\ \A t \in OpenRegistered \ {s} :
                     inbox'[t] = Append(inbox[t],
                         MeshFrameIn(RawEnvelope, hpeerId[s], etype))]_vars

\* C10: the hub never holds two open sessions that registered the same
\* peerId.
C10_OneOpenSessionPerPeerId ==
    \A p \in PeerIds :
        Cardinality({s \in Sessions : hstate[s] = "open" /\ hpeerId[s] = p}) <= 1

\* C11: a register frame from a session that already has a peerId bound is
\* rejected: it changes neither the peerId bound to the session nor the hub's
\* peerId -> session map.
C11_BoundSessionRegisterRejected ==
    [][\A s \in Sessions, p \in PeerIds :
          (RawRegister(s, p) /\ hpeerId[s] # Null) =>
              /\ hpeerId'[s] = hpeerId[s]
              /\ peers' = peers]_vars

(***************************************************************************)
(* Relay claims.                                                           *)
(***************************************************************************)
Range(seq) == {seq[i] : i \in 1..Len(seq)}

\* every copy of a message envelope: in flight to or from the hub, or logged
\* by a node (the handlers are handed the copy that is logged)
MessageCopies ==
    LET frames == UNION {Range(inbox[s]) \cup Range(outbox[s]) : s \in Sessions}
        inFlight == {g \in frames : g.type = "mesh_message" /\ g.envelopeType # "key"}
    IN  {f.envelope : f \in inFlight}
        \cup UNION {Range(messageMesh[n]) \cup Range(broadcasts[n]) : n \in Nodes}

\* the forwarder entries of a copy: its hops after the origin entry
Forwards(m) == Len(m.hops) - 1

\* C1: on every node, the message handlers are dispatched at most once for
\* every msg_id, the node that originated the envelope included.
C1_HandlersOncePerMsgId ==
    \A n \in Nodes, id \in MsgIds : handled[n][id] <= 1

\* node n has been connected and registered, on the same socket, ever since
\* id was originated
RegisteredSince(n, id) ==
    /\ Registered(n)
    /\ origin[id].links[n] = ws[n]

\* every frame written to a socket that is still open has been read
NothingInFlight ==
    \A s \in Sessions :
        /\ cstate[s] = "open" => inbox[s] = <<>>
        /\ hstate[s] = "open" => outbox[s] = <<>>

\* the handlers of t have been handed a copy of id that took no more
\* forwards than the hop budget of id
Delivered(t, id) ==
    /\ handled[t][id] >= 1
    /\ \E m \in Range(messageMesh[t]) :
           m.msg_id = id /\ Forwards(m) <= origin[id].ttl

\* C5: when a node s has broadcast an envelope while s and another node t
\* were connected and registered, both have stayed so, and every frame sent
\* has been read, then the handlers of t have been handed the envelope, over
\* no more forwards than its ttl.
C5_BroadcastReachesRegisteredNodes ==
    \A s \in Nodes, t \in Nodes, id \in MsgIds :
        ( /\ s # t
          /\ origin[id].src = s
          /\ origin[id].type = "broadcast"
          /\ RegisteredSince(s, id)
          /\ RegisteredSince(t, id)
          /\ NothingInFlight )
        => Delivered(t, id)

\* C6: no copy that a relay has forwarded (one with a forwarder entry)
\* carries ttl 0.
C6_NoForwardWithTtlZero ==
    \A m \in MessageCopies : Forwards(m) >= 1 => m.ttl > 0

\* C7: every copy of a message envelope carries a ttl between 0 and the ttl
\* the envelope had at origin.
C7_TtlWithinOriginBudget ==
    \A m \in MessageCopies : 0 <= m.ttl /\ m.ttl <= origin[m.msg_id].ttl

C7_Witness ==
    \E m \in MessageCopies : Forwards(m) >= 1 /\ m.ttl = 0

\* C8: the hop list of every copy holds at most T forwarder entries after
\* the origin entry, T being the ttl of the envelope at origin.
C8_AtMostTtlForwards ==
    \A m \in MessageCopies : Forwards(m) <= origin[m.msg_id].ttl

C8_Witness ==
    \E m \in MessageCopies :
        origin[m.msg_id].ttl >= 1 /\ Forwards(m) = origin[m.msg_id].ttl

(***************************************************************************)
(* Admin join claims.                                                      *)
(***************************************************************************)
\* C2: when an e2e envelope and its key envelope, wrapped to the key of an
\* admin node z, have been emitted while z was connected and registered, z
\* has stayed so, every frame sent has been read and no gateway timer or
\* join of z is pending, then z holds a DecryptedMessage for the msg_id.
C2_JoinEitherOrder ==
    \A z \in Nodes, id \in MsgIds :
        ( /\ origin[id].type = "e2e"
          /\ origin[id].src # z
          /\ isAdminMode(z)
          /\ getAdminPrivateKey(z) = origin[id].wrappedTo
          /\ e2eServices[z] >= 1
          /\ RegisteredSince(z, id)
          /\ NothingInFlight
          /\ gwTimers = <<>>
          /\ joins[z] = <<>> )
        => HasId(decrypted[z], id)

\* C3: the decrypted collection of a node holds at most one DecryptedMessage
\* per msg_id.
C3_OneDecryptedPerMsgId ==
    \A n \in Nodes, id \in MsgIds : CountId(decrypted[n], id) <= 1

\* C4: no step stores a DecryptedMessage on a node that is not in admin mode
\* or holds no admin private key.
C4_NonAdminNeverStores ==
    [][\A n \in Nodes :
          (~isAdminMode(n) \/ getAdminPrivateKey(n) = NoKey)
              => decrypted'[n] = decrypted[n]]_vars

\* a node that has left admin mode has resumed every join it had suspended,
\* with both envelopes of an e2e message in its store
C4_Witness ==
    \E n \in Nodes, id \in MsgIds :
        /\ ~isAdminMode(n)
        /\ e2eServices[n] >= 1
        /\ HasId(messageMesh[n], id) /\ HasId(keyMesh[n], id)
        /\ FindById(messageMesh[n], id).type = "e2e"
        /\ joins[n] = <<>>
        /\ decrypted[n] = <<>>

(***************************************************************************)
(* Key envelope claims.                                                    *)
(***************************************************************************)
\* a mesh_message frame marked as carrying a key envelope
IsKeyFrame(f) == f.type = "mesh_message" /\ f.envelopeType = "key"
KeyFrames(queue) == SelectSeq(queue, IsKeyFrame)

\* C12: a node that reads a key frame from the hub sends nothing to the hub,
\* and a key frame is only ever written to a socket by the node that
\* originates the key envelope, once, in the step that creates it.
C12_KeyEnvelopesNeverRelayed ==
    [][\A s \in Sessions :
          /\ (inbox[s] # <<>> /\ IsKeyFrame(Head(inbox[s])) /\ OnMessage(s))
                 => outbox' = outbox
          /\ Len(KeyFrames(outbox'[s])) > Len(KeyFrames(outbox[s]))
                 => /\ nextId' = nextId + 1
                    /\ KeyFrames(outbox'[s]) =
                           Append(KeyFrames(outbox[s]),
                               MeshFrameOut(createKeyEnvelope(owner[s], nextId,
                                   getAdminPublicKey(owner[s])), "key"))]_vars

\* a node has stored a key envelope it read from the hub, and nothing is on
\* its way to the hub
C12_Witness ==
    /\ \E n \in Nodes, id \in MsgIds :
           HasId(keyMesh[n], id) /\ FindById(keyMesh[n], id).from # n
    /\ \A s \in Sessions : outbox[s] = <<>>
\* the frames a step has appended to a queue
Appended(before, after) == SubSeq(after, Len(before) + 1, Len(after))

\* C13: the hub hands the envelopeType of a mesh_message frame on as it is.
\* A node that reads a frame marked "key" leaves its message log and its
\* message handlers alone and, when it has not stored the key envelope yet,
\* saves it in keyMesh; a node that reads a frame that is not marked leaves
\* keyMesh alone and, when it has not stored the envelope yet, saves it in
\* its message log.
C13_EnvelopeTypeSelectsPath ==
    [][\A s \in Sessions :
          /\ (outbox[s] # <<>> /\ Head(outbox[s]).type = "mesh_message"
                 /\ HubReceive(s))
                 => \A t \in Sessions :
                        \A f \in Range(Appended(inbox[t], inbox'[t])) :
                            f.envelopeType = Head(outbox[s]).envelopeType
          /\ (inbox[s] # <<>> /\ Head(inbox[s]).type = "mesh_message"
                 /\ OnMessage(s))
                 => LET n == owner[s]
                        envelope == Head(inbox[s]).envelope
                    IN  IF IsKeyFrame(Head(inbox[s]))
                        THEN /\ messageMesh'[n] = messageMesh[n]
                             /\ handled'[n] = handled[n]
                             /\ ~HasId(keyMesh[n], envelope.msg_id)
                                    => keyMesh'[n] = Append(keyMesh[n], envelope)
                        ELSE /\ keyMesh'[n] = keyMesh[n]
                             /\ ~HasId(messageMesh[n], envelope.msg_id)
                                    => messageMesh'[n] =
                                           Append(messageMesh[n], envelope)]_vars
(***************************************************************************)
(* Persistence claims.                                                     *)
(***************************************************************************)
\* C14: a step of a node whose saves fail hands the envelope to no message
\* handler and writes nothing to the hub, whether the envelope is read from
\* the hub or originated by createBroadcast, and createBroadcast surfaces
\* an error to its caller.
C14_FailedSaveStopsEnvelope ==
    [][\A n \in Nodes :
          storageFull[n] =>
              /\ (\E s \in Sessions :
                     /\ owner[s] = n /\ inbox[s] # <<>>
                     /\ Head(inbox[s]).type = "mesh_message"
                     /\ OnMessage(s))
                     => handled'[n] = handled[n] /\ outbox' = outbox
              /\ CreateBroadcast(n)
                     => /\ handled'[n] = handled[n]
                        /\ outbox' = outbox
                        /\ thrown'[n] # Null]_vars

\* C15: a createBroadcast or createE2EMessage called on a node whose hub
\* connection is not open persists the envelope, hands it to the local
\* handlers and then fails with NotConnected.
C15_NotConnectedReported ==
    [][\A n \in Nodes :
          ~isConnected(n) =>
              /\ CreateBroadcast(n)
                     => /\ HasId(messageMesh'[n], nextId)
                        /\ handled'[n][nextId] = handled[n][nextId] + 1
                        /\ thrown'[n] = "NotConnected"
              /\ (CreateE2EMessage(n) /\ getAdminPublicKey(n) # NoKey)
                     => /\ HasId(messageMesh'[n], nextId)
                        /\ HasId(keyMesh'[n], nextId)
                        /\ handled'[n][nextId] = handled[n][nextId] + 1
                        /\ thrown'[n] = "NotConnected"]_vars

\* C16: the broadcasts collection of a node holds every envelope of type
\* broadcast in its message log, that is every one the node has originated
\* or has read from the hub and accepted.
C16_BroadcastsHoldEveryBroadcast ==
    \A n \in Nodes :
        \A m \in Range(messageMesh[n]) :
            m.type = "broadcast" => HasId(broadcasts[n], m.msg_id)
\* C17: each of the four persisted collections of a node holds at most one
\* entry per msg_id.
C17_LastWriterWinsByMsgId ==
    \A n \in Nodes, id \in MsgIds :
        /\ CountId(messageMesh[n], id) <= 1
        /\ CountId(keyMesh[n], id) <= 1
        /\ CountId(broadcasts[n], id) <= 1
        /\ CountId(decrypted[n], id) <= 1

\* entries i < j of a log are consecutive entries for one msg_id
ConsecutiveForId(log, i, j) ==
    /\ i < j
    /\ log[i].msg_id = log[j].msg_id
    /\ \A k \in (i + 1)..(j - 1) : log[k].msg_id # log[i].msg_id

\* C18: of two consecutive entries of a node's message log for one msg_id,
\* the later one has a smaller ttl and exactly one hop more.
C18_LogEntriesDescend ==
    \A n \in Nodes :
        \A i \in 1..Len(messageMesh[n]), j \in 1..Len(messageMesh[n]) :
            ConsecutiveForId(messageMesh[n], i, j) =>
                /\ messageMesh[n][j].ttl < messageMesh[n][i].ttl
                /\ Len(messageMesh[n][j].hops) = Len(messageMesh[n][i].hops) + 1
\* C19: the dedupe list of a node holds at most DEDUPE_CAP ids and holds no
\* id twice.
C19_DedupeBoundedNoRepeats ==
    \A n \in Nodes :
        /\ Len(dedupe[n]) <= DEDUPE_CAP
        /\ Cardinality(Range(dedupe[n])) = Len(dedupe[n])

\* the list is full, its oldest id has been dropped and marked again
C19_Witness ==
    LET dd == dedupe[DedupeNode]
    IN  /\ Len(dd) = DEDUPE_CAP
        /\ dd[Len(dd)] = 1
        /\ Head(dd) > 2
(***************************************************************************)
(* Connection loss claims.                                                 *)
(***************************************************************************)
\* C20: when a socket of a node closes while the node knows peers, the peer
\* set becomes empty and the peer-lost handler is called once for each peer
\* that was in the set.
C20_PeerLostOnClose ==
    [][\A s \in Sessions :
          (OnClose(s) /\ meshPeers[owner[s]] # {}) =>
              LET n == owner[s]
              IN  /\ meshPeers'[n] = {}
                  /\ peerLost'[n] =
                         [p \in PeerIds |->
                             IF p \in meshPeers[n] THEN peerLost[n][p] + 1
                             ELSE peerLost[n][p]]]_vars
\* C21: the attempt counter of a node never exceeds maxReconnectAttempts; a
\* close below the limit schedules a reconnect; a step schedules a reconnect
\* only while the counter is below the limit, one timer and one count at a
\* time, so a close at the limit schedules nothing; and an open resets the
\* counter to 0.
C21_ReconnectBounded ==
    [][\A n \in Nodes :
          /\ reconnectAttempts'[n] <= maxReconnectAttempts
          /\ (\E s \in Sessions : owner[s] = n /\ OnClose(s))
                 => (reconnectTimers'[n] > reconnectTimers[n]
                        <=> reconnectAttempts[n] < maxReconnectAttempts)
          /\ (\E s \in Sessions : owner[s] = n /\ OnOpen(s))
                 => reconnectAttempts'[n] = 0
          /\ reconnectTimers'[n] > reconnectTimers[n]
                 => /\ reconnectAttempts[n] < maxReconnectAttempts
                    /\ reconnectAttempts'[n] = reconnectAttempts[n] + 1
                    /\ reconnectTimers'[n] = reconnectTimers[n] + 1]_vars

\* a node has given up: the limit is reached, no timer is pending and no
\* socket of the node is connecting or open
C21_Witness ==
    \E n \in Nodes :
        /\ reconnectAttempts[n] = maxReconnectAttempts
        /\ reconnectTimers[n] = 0
        /\ ws[n] # NoSession
        /\ \A s \in Sessions : owner[s] = n => cstate[s] = "closed"
\* the relay of n has been closed: disconnect() has reset this.ws of a
\* relay that had connected
RelayClosed(n) == ws[n] = NoSession /\ \E s \in Sessions : owner[s] = n

\* C22: while the relay of a node is closed, no reconnect is scheduled and
\* no new connection is made unless initialize() is called again, a
\* createBroadcast is not accepted (nothing is logged, no handler is
\* called), no handler is called for anything else either, and the entries
\* of the message log stay.
C22_ClosedRelayStaysClosed ==
    [][\A n \in Nodes :
          RelayClosed(n) =>
              /\ reconnectTimers'[n] <= reconnectTimers[n]
              /\ ws'[n] = NoSession \/ Initialize(n)
              /\ handled'[n] = handled[n]
              /\ CreateBroadcast(n) => messageMesh'[n] = messageMesh[n]
              /\ SubSeq(messageMesh'[n], 1, Len(messageMesh[n])) = messageMesh[n]]_vars
(***************************************************************************)
(* Gateway claims.                                                         *)
(***************************************************************************)
\* C23: a POST /gateway/submit whose body lacks encryptedPayload, wrappedKey
\* or msgId is answered with 400, puts no frame on any session and leaves
\* no key frame pending for later.
C23_IncompleteBodyRejected ==
    [][\A body \in GatewayBodies :
          ((~body.encryptedPayload \/ body.wrappedKey = NoKey \/ ~body.msgId)
              /\ GatewaySubmit(body))
          => /\ gwResponse' = 400
             /\ inbox' = inbox
             /\ gwTimers' = gwTimers]_vars

\* an incomplete body has been answered while a registered session was open
\* and nothing is in flight to it or pending
C23_Witness ==
    /\ gwResponse = 400
    /\ gwTimers = <<>>
    /\ \E p \in PeerIds :
           /\ peers[p] # NoSession
           /\ hstate[peers[p]] = "open"
           /\ inbox[peers[p]] = <<>>
\* the sessions the hub's map holds whose socket is OPEN: the sessions an
\* emission of the gateway goes to
OpenPeerSessions == {t \in Sessions : hstate[t] = "open" /\ \E q \in PeerIds : peers[q] = t}

\* f is the message frame (key = FALSE) or the key frame (key = TRUE) the
\* gateway emits for msgId
IsGatewayFrame(f, msgId, key) ==
    /\ f.type = "mesh_message"
    /\ f.fromPeer = "gateway"
    /\ f.envelope.msg_id = msgId
    /\ (f.envelopeType = "key") = key

C25_NonAdminLogsBothEnvelopes ==
    [][\A s \in Sessions :
          (/\ inbox[s] # <<>>
           /\ Head(inbox[s]).type = "mesh_message"
           /\ OnMessage(s)
           /\ ~isAdminMode(owner[s]))
          => LET n == owner[s]
                 envelope == Head(inbox[s]).envelope
             IN  /\ IF Head(inbox[s]).envelopeType = "key"
                    THEN HasId(keyMesh'[n], envelope.msg_id)
                    ELSE /\ HasId(messageMesh'[n], envelope.msg_id)
                         /\ FindById(messageMesh'[n], envelope.msg_id).payload
                                = envelope.payload
                 /\ decrypted'[n] = decrypted[n]]_vars
\* C26: createE2EMessage on a node that holds no admin public key throws
\* 'Admin public key not available' and changes nothing else: no log, no
\* dedupe entry, no handler dispatch, no suspended join, no frame to the
\* hub, no message id used.
C26_NoAdminKeyFailsClean ==
    [][\A n \in Nodes :
          (getAdminPublicKey(n) = NoKey /\ CreateE2EMessage(n))
          => /\ thrown'[n] = NoAdminPublicKey
             /\ messageMesh' = messageMesh
             /\ keyMesh' = keyMesh
             /\ handled' = handled
             /\ outbox' = outbox
             /\ UNCHANGED <<storeVars, relayVars, nextId, origin>>]_vars

\* the call has failed on a node that is connected and registered, so that
\* an emission would have reached the hub
C26_Witness ==
    \E n \in Nodes :
        /\ thrown[n] = NoAdminPublicKey
        /\ Registered(n)
        /\ getAdminPublicKey(n) = NoKey
        /\ messageMesh[n] = <<>> /\ keyMesh[n] = <<>>
(***************************************************************************)
(* Hub membership claims.                                                  *)
(***************************************************************************)
\* C27: when a session registers peerId p, every other session that is open
\* and has registered gets one peer_connected{p} frame, and the registering
\* session gets, as its last frame, a peer_list of exactly the peerIds the
\* map holds at that moment other than p.
C27_RegisterAnnounced ==
    [][\A s \in Sessions, p \in PeerIds :
          RawRegister(s, p)
          => /\ \A t \in Sessions \ {s} :
                    (hstate[t] = "open" /\ hpeerId[t] # Null)
                        => inbox'[t] = Append(inbox[t], PeerConnected(p))
             /\ inbox'[s] # <<>>
             /\ inbox'[s][Len(inbox'[s])] =
                    PeerList({q \in PeerIds \ {p} : peers[q] # NoSession})]_vars
\* C28: when a session that has registered closes, the map holds no binding
\* to it afterwards, the bindings of the other sessions stay, and every
\* other session that is open and has registered gets one
\* peer_disconnected frame with the peerId of the closed session; when a
\* session closes before it has registered, the map and the frames in
\* flight stay as they are.
C28_CloseAnnounced ==
    [][\A s \in Sessions :
          RawClose(s)
          => IF hpeerId[s] # Null
             THEN /\ \A q \in PeerIds :
                         peers'[q] = IF peers[q] = s THEN NoSession ELSE peers[q]
                  /\ \A t \in Sessions \ {s} :
                         (hstate[t] = "open" /\ hpeerId[t] # Null)
                             => inbox'[t] = Append(inbox[t], PeerDisconnected(hpeerId[s]))
             ELSE peers' = peers /\ inbox' = inbox]_vars
(***************************************************************************)
(* Inbound handling and hop records.                                       *)
(***************************************************************************)
\* C29: when a node reads a message frame whose msg_id is in its dedupe
\* list, nothing is saved, no handler is called and nothing is forwarded;
\* when it reads one whose msg_id is not, the message handlers are called
\* and by then the envelope is in the node's message log and its msg_id in
\* the dedupe list.
C29_MarkSaveHandleForward ==
    [][\A s \in Sessions :
          (/\ inbox[s] # <<>>
           /\ Head(inbox[s]).type = "mesh_message"
           /\ Head(inbox[s]).envelopeType # "key"
           /\ OnMessage(s))
          => LET n == owner[s]
                 envelope == Head(inbox[s]).envelope
             IN  IF isDuplicate(dedupe[n], envelope.msg_id)
                 THEN /\ messageMesh'[n] = messageMesh[n]
                      /\ handled'[n] = handled[n]
                      /\ outbox' = outbox
                 ELSE /\ handled'[n][envelope.msg_id] = handled[n][envelope.msg_id] + 1
                      /\ \E i \in 1..Len(messageMesh'[n]) : messageMesh'[n][i] = envelope
                      /\ isDuplicate(dedupe'[n], envelope.msg_id)]_vars
\* the hop record of a copy of a message envelope that node `last` has
\* logged or written to its socket: it is not empty, it starts with the
\* node that created the envelope, every entry is a node, it ends with
\* `last` when that node forwarded the copy, and it has one entry for the
\* origination and one for each forward the hop budget paid for
HopsRecorded(envelope, last, forwarded) ==
    LET src == origin[envelope.msg_id].src
    IN  src \in Nodes
        => /\ envelope.hops # <<>>
           /\ envelope.hops[1] = src
           /\ \A i \in 1..Len(envelope.hops) : envelope.hops[i] \in Nodes
           /\ forwarded => envelope.hops[Len(envelope.hops)] = last
           /\ Len(envelope.hops) = 1 + (origin[envelope.msg_id].ttl - envelope.ttl)

IsMessageFrame(f) == f.type = "mesh_message" /\ f.envelopeType # "key"

\* every copy of a message envelope, logged or in flight, has its hop record
AllHopsRecorded ==
    /\ \A n \in Nodes :
           /\ \A i \in 1..Len(messageMesh[n]) :
                  HopsRecorded(messageMesh[n][i], n, FALSE)
           /\ \A i \in 1..Len(broadcasts[n]) :
                  HopsRecorded(broadcasts[n][i], n, FALSE)
    /\ \A s \in Sessions :
           /\ \A i \in 1..Len(outbox[s]) :
                  IsMessageFrame(outbox[s][i])
                      => HopsRecorded(outbox[s][i].envelope, owner[s], TRUE)
           /\ \A i \in 1..Len(inbox[s]) :
                  IsMessageFrame(inbox[s][i])
                      => HopsRecorded(inbox[s][i].envelope, inbox[s][i].fromPeer, TRUE)

\* C30: every copy of a message envelope created at a node, logged or in
\* flight, has a hop record that starts with the creating node and ends
\* with the node that sent it last; and a node that forwards the envelope it
\* has read sends it with the hop record it came with and itself appended.
C30_HopsAppendOnly ==
    [][/\ AllHopsRecorded'
       /\ \A s \in Sessions :
              (/\ inbox[s] # <<>>
               /\ IsMessageFrame(Head(inbox[s]))
               /\ OnMessage(s)
               /\ outbox' # outbox)
              => LET sent == outbox'[ws[owner[s]]][Len(outbox'[ws[owner[s]]])].envelope
                     read == Head(inbox[s]).envelope
                 IN  /\ sent.msg_id = read.msg_id
                     /\ sent.hops = Append(read.hops, owner[s])]_vars

\* a copy that has been forwarded twice is in flight: created at one node,
\* forwarded by a second and then by the first again
C30_Witness ==
    \E s \in Sessions : \E i \in 1..Len(inbox[s]) :
        /\ IsMessageFrame(inbox[s][i])
        /\ Len(inbox[s][i].envelope.hops) = 3
        /\ inbox[s][i].envelope.hops[2] # inbox[s][i].envelope.hops[1]
JoinFails(n, join) ==
    \/ getAdminPrivateKey(n) = NoKey
    \/ join.storedKey.wrapped_key.pub # getAdminPrivateKey(n)
    \/ join.storedMessage.payload.sealed # join.storedKey.wrapped_key.sk

\* C32: when a suspended join resumes and cannot succeed, the decrypted
\* collection stays as it is, the message log and the key log stay as they
\* are, no error reaches a caller, no handler dispatch is affected and the
\* other suspended joins stay pending.
C32_FailedJoinLeavesLog ==
    [][\A n \in Nodes :
          (joins[n] # <<>> /\ JoinFails(n, Head(joins[n])) /\ JoinStep(n))
          => /\ decrypted' = decrypted
             /\ messageMesh' = messageMesh
             /\ keyMesh' = keyMesh
             /\ thrown' = thrown
             /\ handled' = handled
             /\ joins'[n] = Tail(joins[n])]_vars

\* a join has failed on the wrong key: the node holds both envelopes of a
\* message whose key was wrapped to a key pair it has replaced since, the
\* join has run and nothing was decrypted
C32_Witness ==
    \E n \in Nodes, id \in MsgIds :
        /\ HasId(messageMesh[n], id) /\ HasId(keyMesh[n], id)
        /\ handled[n][id] > 0
        /\ joins[n] = <<>>
        /\ decrypted[n] = <<>>
        /\ ~storageFull[n]
        /\ getAdminPrivateKey(n) # NoKey
        /\ FindById(keyMesh[n], id).wrapped_key.pub # getAdminPrivateKey(n)
(***************************************************************************)
(* One hub session per node.                                               *)
(***************************************************************************)
\* the WebSockets of node n that are connecting or open
LiveSockets(n) ==
    {s \in Sessions : owner[s] = n /\ cstate[s] \in {"connecting", "open"}}

\* C33: a node has at most one WebSocket to the hub that is connecting or
\* open, and a socket on which frames arrive for the node is the one the
\* relay holds in this.ws.
C33_OneHubSessionPerNode ==
    \A n \in Nodes :
        /\ Cardinality(LiveSockets(n)) <= 1
        /\ \A s \in LiveSockets(n) : s = ws[n]
C35_CloseRemovesOwnBindingOnly ==
    [][\A s \in Sessions :
          RawClose(s)
          => /\ \A q \in PeerIds : peers[q] # s => peers'[q] = peers[q]
             /\ \A t \in Sessions \ {s} :
                    (hstate[t] = "open" /\ \E q \in PeerIds : peers[q] = t)
                        => \E q \in PeerIds : peers'[q] = t
             /\ (/\ hpeerId[s] # Null
                 /\ peers[hpeerId[s]] # NoSession
                 /\ peers[hpeerId[s]] # s)
                    => inbox' = inbox]_vars

(***************************************************************************)
(* Mobile application claims.                                              *)
(***************************************************************************)
\* C36: when ackReceived(messageId) was called while the message was pending
\* and is still awaiting the database update, an ACK timeout that fires for
\* the message leaves the persisted delivered flag true.
C36_AckedStaysDelivered ==
    [][\A t \in delivery.timeouts :
           (/\ HandleAckTimeout(t)
            /\ \E c \in delivery.awaiting :
                   c.op = "ackReceived" /\ c.messageId = t.messageId /\ c.wasPending
            /\ delivery.delivered[t.messageId] = "true")
           => delivery'.delivered[t.messageId] = "true"]_vars

\* C37: for every message id the retry callback is invoked at most
\* maxRetries times in total, counting the automatic retries of the ACK
\* timeout and the manual retries of retryMessage.
C37_RetryCallsBounded ==
    \A id \in 1..MaxDeliveryIds : delivery.retryCalls[id] <= maxRetries

\* C38: a message that leaves the retry queue while a connection exists has
\* been written to a connection; it is never dropped from the queue as sent
\* without a transmission.
C38_QueuedIsTransmitted ==
    [][\A id \in 1..MaxHybridMsgs :
           (/\ id \in Range(hybrid.messageQueue)
            /\ hybrid.bleConnections # {}
            /\ id \notin Range(hybrid'.messageQueue))
           => \E d \in 1..MaxDevices : hybrid'.writes[d][id] > 0]_vars

\* C39: the number of cached message ids never exceeds maxCacheSize, also
\* when no cached entry is older than cacheTimeout.
C39_CacheBounded ==
    Cardinality(cache.messageCache) <= maxCacheSize

====
